---- MODULE Spec2Model ----
(***************************************************************************)
(* Job/stream orchestration layer of LatentWall.                           *)
(*                                                                         *)
(*  - BatchProcessor / SimulationManager (src/src/simulation_manager.py):  *)
(*    bounded-concurrency batch scheduler, one asyncio task per script,    *)
(*    every await of a task being one step of the model.                   *)
(*  - OdysseyClientManager (src/src/odyssey_client.py): the singleton      *)
(*    session (_connected, _current_stream_id), its operations split at    *)
(*    their await on the underlying client, and the service callbacks.     *)
(***************************************************************************)
EXTENDS Integers, Sequences, FiniteSets, TLC

\* ------------------------------------------------------------------ bounds
MaxScripts == 3        \* scripts handed to one process_batch call: 0..MaxScripts
MaxConcurrent == 2     \* max_concurrent is drawn from 1..MaxConcurrent
MaxStreams == 1        \* streams reported by a completed job: 0..MaxStreams
MaxCallers == 2        \* coroutines calling the session manager concurrently
MaxStreamIds == 2      \* distinct stream ids the service hands out
MaxPending == 3        \* pending/running answers the service gives one waiter
MaxTimeout == 2        \* largest timeout passed, in poll intervals
MaxConsumers == 2      \* websockets that connect to /ws/video
MaxFrames == 2         \* frames the service delivers to the frame callback
MaxMessages == 4       \* messages one /ws/stream client sends
MaxJobStreams == 6     \* streams of the job handed to download_result: 0..MaxJobStreams
MaxActions == 2        \* actions added to one SimulationScript
MaxTimestamp == 1      \* timestamp_ms is drawn from 0..MaxTimestamp
MaxHolders == 4        \* places that call OdysseyClientManager() and keep the result
MaxBatchItems == 2     \* scripts per call when two calls share a processor: 0..MaxBatchItems
MaxKeep == 3           \* max_frames is None or drawn from 0..MaxKeep
MaxArrivals == 6       \* frames handed to one FrameCollector

VARIABLES
    \* BatchProcessor
    max_concurrent,    \* BatchProcessor.max_concurrent
    semaphore,         \* value of BatchProcessor.semaphore (free permits)
    batch,             \* position of process_batch: idle, running, returned, cancelled
    nScripts,          \* len(scripts) of the running call
    pc,                \* position of each _process_single task
    streams,           \* streams of the status dict handed to download_result
    taskResult,        \* outcome of each _process_single task
    order,             \* indexes of the finished tasks, in completion order
    results,           \* value returned by process_batch
    \* OdysseyClientManager
    connected,         \* OdysseyClientManager._connected
    stream_id,         \* OdysseyClientManager._current_stream_id
    call,              \* per caller: the operation awaiting the underlying client
    last,              \* the call that returned or raised last, with its outcome
    registered,        \* the manager's callbacks were handed to client.connect
    opened,            \* underlying connections opened and not closed
    svcStream,         \* the stream the service is running on the connection
    announce,          \* started stream whose on_stream_started is not delivered yet
    passedConnected,   \* the session has been Connected at some point
    \* SimulationManager.wait_for_completion
    wpc,               \* position of the waiter: idle, poll, sleep, done
    timeout,           \* the timeout argument
    clock,             \* loop time since start_time, in poll intervals
    polls,             \* get_status calls issued
    pendings,          \* pending/running answers received
    wstatus,           \* the status dict of the last get_status
    wres,              \* how wait_for_completion ended
    tracked,           \* active_jobs[job_id]['status']
    cancelIssued,      \* client.cancel_simulation was called for the job
    \* StreamManager
    active_connections, \* StreamManager.active_connections
    consumer,          \* per websocket: new, subscribed, gone
    frame,             \* per frame: position of its callback and broadcast task
    subs,              \* per frame: the websockets subscribed when it was published
    sent,              \* per frame and websocket: send_text coroutines created
    send,              \* per frame and websocket: position of the send
    \* websocket_stream (/ws/stream)
    clientReady,       \* the module-level odyssey_client is not None
    chpc,              \* position of the handler
    events,            \* types of the events sent to the client, in order
    msgs,              \* messages received from the client
    \* SimulationManager.download_result
    dpc,               \* position: idle, recording, video, thumb, done
    dstreams,          \* len(status['streams'])
    di,                \* index i of the stream being downloaded
    downloaded,        \* the list "downloaded"
    item,              \* what _process_single returns for the item
    \* SimulationScript
    actions,           \* SimulationScript.actions of the script being built
    spc,               \* building, saved, save_raised, loaded, load_raised
    file,              \* content of the script file
    loaded,            \* actions of the script from_file returns
    \* OdysseyClientManager construction
    instance,          \* OdysseyClientManager._instance (None or an object)
    made,              \* manager objects created by super().__new__
    initialized,       \* the objects that have the attribute "initialized"
    holder,            \* per construction site: the object OdysseyClientManager() gave it
    clientOf,          \* per object: its _client (None or a service client)
    clientsMade,       \* Odyssey(api_key=...) objects created
    attrs,             \* per object: its _connected and _current_stream_id
    \* backend server: /stream/start, /stream/end, /speech-to-video
    is_streaming,      \* stream_manager.is_streaming
    svcOpen,           \* the underlying client has an open connection
    svcLive,           \* the underlying client has a started stream that has not ended
    startpc,           \* position of the /stream/start handler: idle, connect, start
    endpc,             \* position of the /stream/end handler: idle, end, disconnect
    lastStart,         \* how the last /stream/start request completed
    lastEnd,           \* how the last /stream/end request completed
    routed,            \* where the last /speech-to-video request sent its prompt
    \* one BatchProcessor serving two process_batch calls
    pmax,              \* BatchProcessor.max_concurrent
    psem,              \* value of BatchProcessor.semaphore
    waiters,           \* tasks waiting in semaphore.acquire, oldest first
    ppc,               \* per call: idle, running, returned
    pn,                \* per call: len(scripts)
    ipc,               \* per call and index: position of the _process_single task
    ires,              \* per call and index: the dict the task returned
    pres,              \* per call: the list process_batch returned
    \* FrameCollector
    built,             \* the collector has been constructed
    max_frames,        \* FrameCollector.max_frames
    frames,            \* FrameCollector.frames
    metadata,          \* FrameCollector.metadata
    arrived,           \* frames handed to collect so far
    arrivals           \* the frames handed to collect since the last clear, in order

batchVars == <<max_concurrent, semaphore, batch, nScripts, pc, streams,
               taskResult, order, results>>

sessionVars == <<connected, stream_id, call, last, registered, opened, svcStream,
                 announce, passedConnected>>

waitVars == <<wpc, timeout, clock, polls, pendings, wstatus, wres, tracked, cancelIssued>>

hubVars == <<active_connections, consumer, frame, subs, sent, send>>

channelVars == <<clientReady, chpc, events, msgs>>

\* SimulationManager.download_result inside one _process_single
downloadVars == <<dpc, dstreams, di, downloaded, item>>

\* the components checked on their own
scriptVars == <<actions, spc, file, loaded>>

singletonVars == <<instance, made, initialized, holder, clientOf, clientsMade, attrs>>

serverVars == <<is_streaming, svcOpen, svcLive, startpc, endpc, lastStart, lastEnd, routed>>

pairVars == <<pmax, psem, waiters, ppc, pn, ipc, ires, pres>>

collectorVars == <<built, max_frames, frames, metadata, arrived, arrivals>>

toolVars == <<downloadVars, scriptVars, singletonVars, serverVars, pairVars, collectorVars>>

mainVars == <<batchVars, sessionVars, waitVars, hubVars, channelVars>>
besidesDownload == <<scriptVars, singletonVars, serverVars, pairVars, collectorVars>>
besidesScript == <<downloadVars, singletonVars, serverVars, pairVars, collectorVars>>
besidesSingleton == <<downloadVars, scriptVars, serverVars, pairVars, collectorVars>>
besidesServer == <<downloadVars, scriptVars, singletonVars, pairVars, collectorVars>>
besidesCollector == <<downloadVars, scriptVars, singletonVars, serverVars, pairVars>>
besidesPair == <<downloadVars, scriptVars, singletonVars, serverVars, collectorVars>>

vars == <<batchVars, sessionVars, waitVars, hubVars, channelVars, toolVars>>

\* ------------------------------------------------------- BatchProcessor
Slots == 0 .. (MaxScripts - 1)
Items == {i \in Slots : i < nScripts}

\* statuses get_status can report; pending and running keep the waiter polling
ServiceStatus == {"pending", "running", "completed", "failed", "cancelled"}
NonTerminal == {"pending", "running"}
InPipelinePc == {"submit", "poll", "sleep", "download"}
InPipeline == {i \in Slots : pc[i] \in InPipelinePc}

NoResult == [index |-> -1, status |-> "none", job_id |-> -1, files |-> 0, error |-> "none"]

\* the dict returned on the success path of _process_single
SuccessResult(i, nfiles) ==
    [index |-> i, status |-> "success", job_id |-> i, files |-> nfiles, error |-> "none"]

FailureReportedAsSuccess(i, e) ==
    [index |-> i, status |-> "success", job_id |-> i, files |-> 0, error |-> e]

\* an except clause that lets other errors through: gather(return_exceptions=True)
\* then puts the exception object itself into the result list
ExceptOnlyRuntimeError(i, e) ==
    IF e \in {"job_failed", "job_cancelled"}
    THEN [index |-> i, status |-> "failed", job_id |-> -1, files |-> 0, error |-> e]
    ELSE [index |-> -1, status |-> "exception", job_id |-> -1, files |-> 0, error |-> e]

\* the dict returned by the except Exception clause of _process_single
FailedResult(i, e) ==
    [index |-> i, status |-> "failed", job_id |-> -1, files |-> 0, error |-> e]

AcquireUnchecked(s) == TRUE

\* asyncio.Semaphore.acquire proceeds only while the value is positive
CanAcquire(s) == s > 0

ReleaseOnSuccessOnly(s, rec) == IF rec.status = "success" THEN s + 1 ELSE s

\* __aexit__ of "async with self.semaphore": release on every exit path
Release(s, rec) == s + 1

FailFast(p, i, rec) ==
    [j \in Slots |-> IF j = i THEN "done"
                     ELSE IF rec.status # "success" /\ p[j] \in InPipelinePc \cup {"queued"}
                          THEN "cancelled"
                     ELSE p[j]]

RetryOnFailure(p, i, rec) ==
    IF rec.status = "failed" THEN [p EXCEPT ![i] = "queued"] ELSE [p EXCEPT ![i] = "done"]

\* a task that returns rec leaves every other task where it is
TaskDone(p, i, rec) == [p EXCEPT ![i] = "done"]

AsCompleted(tr, n) == [p \in 1 .. n |-> tr[order[p]]]

\* asyncio.gather: the results in the order of the awaitables passed in
Gather(tr, n) == [p \in 1 .. n |-> tr[p - 1]]

BatchStart(k) ==
    /\ max_concurrent = k
    /\ semaphore = max_concurrent
    /\ batch = "idle"
    /\ nScripts = 0
    /\ pc = [i \in Slots |-> "unused"]
    /\ streams = [i \in Slots |-> 0]
    /\ taskResult = [i \in Slots |-> NoResult]
    /\ order = <<>>
    /\ results = <<>>

BatchInit == \E k \in 1 .. MaxConcurrent : BatchStart(k)

\* process_batch is called with n scripts: one task per script, all queued
ProcessBatch(n) ==
    /\ batch = "idle"
    /\ batch' = "running"
    /\ nScripts' = n
    /\ pc' = [i \in Slots |-> IF i < n THEN "queued" ELSE "unused"]
    /\ UNCHANGED <<max_concurrent, semaphore, streams, taskResult, order, results, sessionVars, waitVars, hubVars, channelVars, toolVars>>

\* "async with self.semaphore": waiters are served in arrival (= index) order
Acquire(i) ==
    /\ batch = "running"
    /\ pc[i] = "queued"
    /\ \A j \in Items : j < i => pc[j] # "queued"
    /\ CanAcquire(semaphore)
    /\ semaphore' = semaphore - 1
    /\ pc' = [pc EXCEPT ![i] = "submit"]
    /\ UNCHANGED <<max_concurrent, batch, nScripts, streams, taskResult, order, results, sessionVars, waitVars, hubVars, channelVars, toolVars>>

\* the task returns rec: permit released, result kept by gather
Finish(i, rec) ==
    /\ pc' = TaskDone(pc, i, rec)
    /\ taskResult' = [taskResult EXCEPT ![i] = rec]
    /\ semaphore' = Release(semaphore, rec)
    /\ order' = Append(order, i)
    /\ streams' = [streams EXCEPT ![i] = 0]
    /\ UNCHANGED <<max_concurrent, batch, nScripts, results, sessionVars, waitVars, hubVars, channelVars, toolVars>>

\* manager.submit returns: the job is tracked, the task goes on to poll
SubmitOk(i) ==
    /\ pc[i] = "submit"
    /\ pc' = [pc EXCEPT ![i] = "poll"]
    /\ UNCHANGED <<max_concurrent, semaphore, batch, nScripts, streams, taskResult, order, results, sessionVars, waitVars, hubVars, channelVars, toolVars>>

\* client.simulate raises
SubmitRaise(i) ==
    /\ pc[i] = "submit"
    /\ Finish(i, FailedResult(i, "submit_error"))

\* wait_for_completion: get_status reports pending or running; timeout is None
PollPending(i) ==
    /\ pc[i] = "poll"
    /\ \E s \in NonTerminal : TRUE
    /\ pc' = [pc EXCEPT ![i] = "sleep"]
    /\ UNCHANGED <<max_concurrent, semaphore, batch, nScripts, streams, taskResult, order, results, sessionVars, waitVars, hubVars, channelVars, toolVars>>

\* asyncio.sleep(poll_interval) returns
SleepDone(i) ==
    /\ pc[i] = "sleep"
    /\ pc' = [pc EXCEPT ![i] = "poll"]
    /\ UNCHANGED <<max_concurrent, semaphore, batch, nScripts, streams, taskResult, order, results, sessionVars, waitVars, hubVars, channelVars, toolVars>>

\* client.get_simulate_status raises
PollRaise(i) ==
    /\ pc[i] = "poll"
    /\ Finish(i, FailedResult(i, "status_error"))

\* wait_for_completion leaves its loop on status s: failed and cancelled raise
\* RuntimeError, anything else is returned and handed to download_result, which
\* returns [] at once when the status lists no streams
PollTerminal(i) ==
    /\ pc[i] = "poll"
    /\ \E s \in ServiceStatus \ NonTerminal :
          IF s = "failed" THEN Finish(i, FailedResult(i, "job_failed"))
          ELSE IF s = "cancelled" THEN Finish(i, FailedResult(i, "job_cancelled"))
          ELSE \E n \in 0 .. MaxStreams :
                  IF n = 0 THEN Finish(i, SuccessResult(i, 0))
                  ELSE /\ pc' = [pc EXCEPT ![i] = "download"]
                       /\ streams' = [streams EXCEPT ![i] = n]
                       /\ UNCHANGED <<max_concurrent, semaphore, batch, nScripts, taskResult, order, results, sessionVars, waitVars, hubVars, channelVars, toolVars>>

\* download_result: video and thumbnail of every stream fetched
DownloadOk(i) ==
    /\ pc[i] = "download"
    /\ Finish(i, SuccessResult(i, 2 * streams[i]))

\* get_recording or _download_file raises
DownloadRaise(i) ==
    /\ pc[i] = "download"
    /\ Finish(i, FailedResult(i, "download_error"))

\* the caller cancels the process_batch task: gather cancels every child,
\* CancelledError passes "except Exception" and leaves through __aexit__
CancelBatch ==
    /\ batch = "running"
    /\ batch' = "cancelled"
    /\ pc' = [i \in Slots |-> IF pc[i] \in InPipelinePc \cup {"queued"} THEN "cancelled" ELSE pc[i]]
    /\ semaphore' = semaphore + Cardinality(InPipeline)
    /\ streams' = [i \in Slots |-> 0]
    /\ UNCHANGED <<max_concurrent, nScripts, taskResult, order, results, sessionVars, waitVars, hubVars, channelVars, toolVars>>

\* gather completes once every task is done; process_batch returns its list
GatherReturn ==
    /\ batch = "running"
    /\ \A i \in Items : pc[i] = "done"
    /\ results' = Gather(taskResult, nScripts)
    /\ batch' = "returned"
    /\ UNCHANGED <<max_concurrent, semaphore, nScripts, pc, streams, taskResult, order, sessionVars, waitVars, hubVars, channelVars, toolVars>>

TaskStep(i) ==
    \/ Acquire(i)
    \/ SubmitOk(i)
    \/ SubmitRaise(i)
    \/ PollPending(i)
    \/ SleepDone(i)
    \/ PollRaise(i)
    \/ PollTerminal(i)
    \/ DownloadOk(i)
    \/ DownloadRaise(i)

BatchNext ==
    \/ \E n \in 0 .. MaxScripts : ProcessBatch(n)
    \/ \E i \in Slots : TaskStep(i)
    \/ CancelBatch
    \/ GatherReturn

\* ------------------------------------------------- OdysseyClientManager
Callers == 1 .. MaxCallers
StreamIds == 1 .. MaxStreamIds
\* the None of _current_stream_id; stream ids are 1, 2, ...
None == 0

\* the StreamSession state a pair (_connected, _current_stream_id) stands for
StateOf(conn, sid) ==
    IF ~conn THEN "Idle" ELSE IF sid = None THEN "Connected" ELSE "Streaming"

SessionState == StateOf(connected, stream_id)

NoCall == [op |-> "idle", from |-> "Idle"]
Pending(c, o) == call[c].op = o
InFlightConnects == Cardinality({c \in Callers : Pending(c, "connect")})

\* connect: "if self._connected: return"
SkipsConnect(conn) == conn

StartsFromAnyState(conn) == TRUE

\* start_stream: "if not self._connected: raise OdysseyStreamError"
StartStreamAllowed(conn) == conn

InteractIfConnected(conn, sid) == conn

\* interact: raises OdysseyStreamError unless connected with a stream id
InteractAllowed(conn, sid) == conn /\ sid # None

\* every session action records whether the session has been Connected, and
\* leaves the other components alone
Track ==
    /\ passedConnected' = (passedConnected \/ StateOf(connected', stream_id') = "Connected")
    /\ UNCHANGED <<batchVars, waitVars, hubVars, channelVars, toolVars>>

Returned(c, o, r) ==
    /\ last' = [op |-> o, from |-> call[c].from, res |-> r]
    /\ call' = [call EXCEPT ![c] = NoCall]

\* an operation that returns or raises before its first await
Immediate(c, o, r) ==
    /\ call[c].op = "idle"
    /\ last' = [op |-> o, from |-> SessionState, res |-> r]
    /\ UNCHANGED <<connected, stream_id, call, registered, opened, svcStream, announce>>
    /\ Track

\* an operation that passes its checks and awaits the underlying client
Awaits(c, o) ==
    /\ call[c].op = "idle"
    /\ call' = [call EXCEPT ![c] = [op |-> o, from |-> SessionState]]

SessionInit ==
    /\ connected = FALSE
    /\ stream_id = None
    /\ call = [c \in Callers |-> NoCall]
    /\ last = [op |-> "none", from |-> "Idle", res |-> "none"]
    /\ registered = FALSE
    /\ opened = 0
    /\ svcStream = None
    /\ announce = None
    /\ passedConnected = FALSE

\* connect(): skipped when already connected, else client.connect is awaited
ConnectBegin(c) ==
    IF SkipsConnect(connected)
    THEN Immediate(c, "connect", "noop")
    ELSE /\ Awaits(c, "connect")
         /\ registered' = TRUE
         /\ UNCHANGED <<connected, stream_id, last, opened, svcStream, announce>>
         /\ Track

\* client.connect returns: self._connected = True
ConnectOk(c) ==
    /\ Pending(c, "connect")
    /\ connected' = TRUE
    /\ opened' = opened + 1
    /\ Returned(c, "connect", "ok")
    /\ UNCHANGED <<stream_id, registered, svcStream, announce>>
    /\ Track

ConnectedDespiteFailure(conn) == TRUE

\* connect's except clauses only log and re-raise: the flag keeps its value
AfterConnectFailure(conn) == conn

\* client.connect raises (OdysseyAuthError, OdysseyConnectionError): re-raised
ConnectRaise(c) ==
    /\ Pending(c, "connect")
    /\ connected' = AfterConnectFailure(connected)
    /\ Returned(c, "connect", "raised")
    /\ UNCHANGED <<stream_id, registered, opened, svcStream, announce>>
    /\ Track

\* disconnect(): skipped when not connected, else client.disconnect is awaited
DisconnectBegin(c) ==
    IF ~connected
    THEN Immediate(c, "disconnect", "noop")
    ELSE /\ Awaits(c, "disconnect")
         /\ UNCHANGED <<connected, stream_id, last, registered, opened, svcStream, announce>>
         /\ Track

\* client.disconnect returns or raises: both paths clear the flag and the id
DisconnectDone(c) ==
    /\ Pending(c, "disconnect")
    /\ connected' = FALSE
    /\ stream_id' = None
    /\ opened' = 0
    /\ svcStream' = None
    /\ announce' = None
    /\ Returned(c, "disconnect", "ok")
    /\ UNCHANGED registered
    /\ Track

\* start_stream(): checks the flag only, then awaits client.start_stream
StartStreamBegin(c) ==
    IF ~StartStreamAllowed(connected)
    THEN Immediate(c, "start_stream", "OdysseyStreamError")
    ELSE /\ Awaits(c, "start_stream")
         /\ UNCHANGED <<connected, stream_id, last, registered, opened, svcStream, announce>>
         /\ Track

\* client.start_stream returns id: self._current_stream_id = stream_id
StartStreamOk(c, id) ==
    /\ Pending(c, "start_stream")
    /\ stream_id' = id
    /\ svcStream' = id
    /\ announce' = id
    /\ Returned(c, "start_stream", "ok")
    /\ UNCHANGED <<connected, registered, opened>>
    /\ Track

\* client.start_stream raises: re-raised, nothing stored
StartStreamRaise(c) ==
    /\ Pending(c, "start_stream")
    /\ Returned(c, "start_stream", "raised")
    /\ UNCHANGED <<connected, stream_id, registered, opened, svcStream, announce>>
    /\ Track

\* interact(): both checks, then client.interact is awaited
InteractBegin(c) ==
    IF ~InteractAllowed(connected, stream_id)
    THEN Immediate(c, "interact", "OdysseyStreamError")
    ELSE /\ Awaits(c, "interact")
         /\ UNCHANGED <<connected, stream_id, last, registered, opened, svcStream, announce>>
         /\ Track

\* client.interact returns or raises
InteractDone(c, r) ==
    /\ Pending(c, "interact")
    /\ Returned(c, "interact", r)
    /\ UNCHANGED <<connected, stream_id, registered, opened, svcStream, announce>>
    /\ Track

\* end_stream(): raises when not connected, returns when there is no stream id,
\* else awaits client.end_stream
EndStreamBegin(c) ==
    IF ~connected THEN Immediate(c, "end_stream", "OdysseyStreamError")
    ELSE IF stream_id = None THEN Immediate(c, "end_stream", "noop")
    ELSE /\ Awaits(c, "end_stream")
         /\ UNCHANGED <<connected, stream_id, last, registered, opened, svcStream, announce>>
         /\ Track

\* client.end_stream returns: the id is cleared
EndStreamOk(c) ==
    /\ Pending(c, "end_stream")
    /\ stream_id' = None
    /\ svcStream' = None
    /\ announce' = None
    /\ Returned(c, "end_stream", "ok")
    /\ UNCHANGED <<connected, registered, opened>>
    /\ Track

\* client.end_stream raises: the id is cleared and the error re-raised
EndStreamRaise(c) ==
    /\ Pending(c, "end_stream")
    /\ stream_id' = None
    /\ Returned(c, "end_stream", "raised")
    /\ UNCHANGED <<connected, registered, opened, svcStream, announce>>
    /\ Track

\* callback _on_disconnected: the connection dropped
OnDisconnected ==
    /\ registered
    /\ opened > 0
    /\ connected' = FALSE
    /\ stream_id' = None
    /\ opened' = 0
    /\ svcStream' = None
    /\ announce' = None
    /\ UNCHANGED <<call, last, registered>>
    /\ Track

\* callback _on_stream_started(stream_id) for a stream the service started
OnStreamStarted ==
    /\ registered
    /\ announce # None
    /\ stream_id' = announce
    /\ announce' = None
    /\ UNCHANGED <<connected, call, last, registered, opened, svcStream>>
    /\ Track

\* callback _on_stream_ended: the service ended the running stream
OnStreamEnded ==
    /\ registered
    /\ svcStream # None
    /\ stream_id' = None
    /\ svcStream' = None
    /\ announce' = None
    /\ UNCHANGED <<connected, call, last, registered, opened>>
    /\ Track

\* callback _on_error(error, fatal): a fatal error clears the flag only
OnError(fatal) ==
    /\ registered
    /\ connected' = IF fatal THEN FALSE ELSE connected
    /\ opened' = IF fatal THEN 0 ELSE opened
    /\ svcStream' = IF fatal THEN None ELSE svcStream
    /\ announce' = IF fatal THEN None ELSE announce
    /\ UNCHANGED <<stream_id, call, last, registered>>
    /\ Track

SessionNext ==
    \/ \E c \in Callers : ConnectBegin(c)
    \/ \E c \in Callers : ConnectOk(c)
    \/ \E c \in Callers : ConnectRaise(c)
    \/ \E c \in Callers : DisconnectBegin(c)
    \/ \E c \in Callers : DisconnectDone(c)
    \/ \E c \in Callers : StartStreamBegin(c)
    \/ \E c \in Callers, id \in StreamIds : StartStreamOk(c, id)
    \/ \E c \in Callers : StartStreamRaise(c)
    \/ \E c \in Callers : InteractBegin(c)
    \/ \E c \in Callers, r \in {"ok", "raised"} : InteractDone(c, r)
    \/ \E c \in Callers : EndStreamBegin(c)
    \/ \E c \in Callers : EndStreamOk(c)
    \/ \E c \in Callers : EndStreamRaise(c)
    \/ OnDisconnected
    \/ OnStreamStarted
    \/ OnStreamEnded
    \/ \E fatal \in BOOLEAN : OnError(fatal)

\* ----------------------------------- SimulationManager.wait_for_completion
\* timeout=None
NoTimeout == -1
Timeouts == {NoTimeout} \cup (0 .. MaxTimeout)

\* what the status field of a get_status answer can hold
Reported == ServiceStatus \cup {"other"}
NoStatus == [status |-> "none", streams |-> 0]

\* "if timeout:" is false for None and for 0
TimeoutSet(t) == t # NoTimeout /\ t # 0

KeepsPollingUntilCompleted(s) == s # "completed"

CancelOnTimeout(issued) == TRUE

\* the timeout branch only raises TimeoutError: no cancel goes to the service
AfterTimeout(issued) == issued

\* the statuses after which a job record is meant to stay as it is
TerminalStatus == {"completed", "failed", "cancelled", "timed_out"}

\* the loop breaks when "status['status'] not in ('pending', 'running')"
KeepsPolling(s) == s \in NonTerminal

WaitInit ==
    /\ wpc = "idle"
    /\ timeout = NoTimeout
    /\ clock = 0
    /\ polls = 0
    /\ pendings = 0
    /\ wstatus = NoStatus
    /\ wres = "none"
    /\ tracked = "pending"
    /\ cancelIssued = FALSE

\* wait_for_completion(job_id, timeout=t): start_time is taken, the loop entered
WaitForCompletion(t) ==
    /\ wpc = "idle"
    /\ wpc' = "poll"
    /\ timeout' = t
    /\ clock' = 0
    /\ UNCHANGED <<polls, pendings, wstatus, wres, tracked, cancelIssued, batchVars, sessionVars, hubVars, channelVars, toolVars>>

\* get_status answers s after d intervals (the job record takes the status) and
\* the loop goes on: the timeout is
\* checked, then the waiter sleeps
WaitPollAgain(s, d) ==
    /\ wpc = "poll"
    /\ KeepsPolling(s)
    /\ s \in NonTerminal => pendings < MaxPending
    /\ polls' = polls + 1
    /\ pendings' = IF s \in NonTerminal THEN pendings + 1 ELSE pendings
    /\ clock' = clock + d
    /\ wstatus' = [status |-> s, streams |-> 0]
    /\ tracked' = s
    /\ IF TimeoutSet(timeout) /\ clock' > timeout
       THEN wpc' = "done" /\ wres' = "TimeoutError" /\ cancelIssued' = AfterTimeout(cancelIssued)
       ELSE wpc' = "sleep" /\ wres' = wres /\ cancelIssued' = cancelIssued
    /\ UNCHANGED <<timeout, batchVars, sessionVars, hubVars, channelVars, toolVars>>

\* get_status answers s with n streams and the loop breaks: failed and cancelled
\* raise RuntimeError, anything else is returned
WaitPollBreak(s, n, d) ==
    /\ wpc = "poll"
    /\ ~KeepsPolling(s)
    /\ s \in NonTerminal => pendings < MaxPending
    /\ polls' = polls + 1
    /\ pendings' = IF s \in NonTerminal THEN pendings + 1 ELSE pendings
    /\ clock' = clock + d
    /\ wstatus' = [status |-> s, streams |-> n]
    /\ wpc' = "done"
    /\ wres' = IF s = "failed" THEN "RuntimeError: Job failed"
               ELSE IF s = "cancelled" THEN "RuntimeError: Job was cancelled"
               ELSE "returned"
    /\ tracked' = s
    /\ UNCHANGED <<timeout, cancelIssued, batchVars, sessionVars, hubVars, channelVars, toolVars>>

\* get_status raises: the exception leaves wait_for_completion
WaitPollRaise ==
    /\ wpc = "poll"
    /\ polls' = polls + 1
    /\ wpc' = "done"
    /\ wres' = "StatusError"
    /\ UNCHANGED <<timeout, clock, pendings, wstatus, tracked, cancelIssued, batchVars, sessionVars, hubVars, channelVars, toolVars>>

\* asyncio.sleep(poll_interval) returns
WaitSleepDone ==
    /\ wpc = "sleep"
    /\ wpc' = "poll"
    /\ clock' = clock + 1
    /\ UNCHANGED <<timeout, polls, pendings, wstatus, wres, tracked, cancelIssued, batchVars, sessionVars, hubVars, channelVars, toolVars>>

\* cancel(job_id), called by anyone holding the manager: once
\* client.cancel_simulation has returned the record is set to cancelled
WaitCancel(accepted) ==
    /\ cancelIssued' = TRUE
    /\ tracked' = IF accepted THEN "cancelled" ELSE tracked
    /\ UNCHANGED <<wpc, timeout, clock, polls, pendings, wstatus, wres, batchVars, sessionVars, hubVars, channelVars, toolVars>>

\* one get_status call of the waiter
WaitPoll ==
    \/ \E s \in Reported, d \in 0 .. 1 : WaitPollAgain(s, d)
    \/ \E s \in Reported, n \in 0 .. MaxStreams, d \in 0 .. 1 : WaitPollBreak(s, n, d)
    \/ WaitPollRaise

WaitNext ==
    \/ \E t \in Timeouts : WaitForCompletion(t)
    \/ WaitPoll
    \/ WaitSleepDone
    \/ \E accepted \in BOOLEAN : WaitCancel(accepted)

\* ------------------------------------------------------------ StreamManager
Consumers == 1 .. MaxConsumers
Frames == 1 .. MaxFrames

Range(q) == {q[p] : p \in DOMAIN q}
Occurrences(q, x) == Cardinality({p \in DOMAIN q : q[p] = x})

DropLast(q, x) == SubSeq(q, 1, Len(q) - 1)

\* list.remove: the first occurrence goes
RECURSIVE Remove(_, _)
Remove(q, x) ==
    IF q = <<>> THEN <<>>
    ELSE IF Head(q) = x THEN Tail(q)
    ELSE <<Head(q)>> \o Remove(Tail(q), x)

TasksSkippingFirst(conns) == Tail(conns)

\* broadcast_frame: one send_text coroutine per entry of active_connections
Tasks(conns) == conns

GatherPropagating(s) ==
    IF \E c \in Consumers : s[c] = "failed" THEN "raised" ELSE "returned"

\* asyncio.gather(*tasks, return_exceptions=True): an exception of a send is a
\* result like any other, broadcast_frame returns
GatherResult(s) == "returned"

HubInit ==
    /\ active_connections = <<>>
    /\ consumer = [c \in Consumers |-> "new"]
    /\ frame = [f \in Frames |-> "none"]
    /\ subs = [f \in Frames |-> {}]
    /\ sent = [f \in Frames |-> [c \in Consumers |-> 0]]
    /\ send = [f \in Frames |-> [c \in Consumers |-> "none"]]

\* websocket_video -> StreamManager.connect: accepted, then appended; the
\* websockets are numbered in the order they connect
Subscribe(c) ==
    /\ consumer[c] = "new"
    /\ \A d \in Consumers : d < c => consumer[d] # "new"
    /\ consumer' = [consumer EXCEPT ![c] = "subscribed"]
    /\ active_connections' = Append(active_connections, c)
    /\ UNCHANGED <<frame, subs, sent, send, batchVars, sessionVars, waitVars, channelVars, toolVars>>

\* websocket_video: receive_text raised -> StreamManager.disconnect
Unsubscribe(c) ==
    /\ consumer[c] = "subscribed"
    /\ consumer' = [consumer EXCEPT ![c] = "gone"]
    /\ active_connections' = IF c \in Range(active_connections)
                             THEN Remove(active_connections, c)
                             ELSE active_connections
    /\ UNCHANGED <<frame, subs, sent, send, batchVars, sessionVars, waitVars, channelVars, toolVars>>

\* on_odyssey_frame: the frame is encoded and its broadcast_frame scheduled on
\* the event loop, or an exception is logged and the frame dropped
OnFrame(f, encoded) ==
    /\ frame[f] = "none"
    /\ \A g \in Frames : g < f => frame[g] # "none"
    /\ frame' = [frame EXCEPT ![f] = IF encoded THEN "scheduled" ELSE "dropped"]
    /\ UNCHANGED <<active_connections, consumer, subs, sent, send,
                   batchVars, sessionVars, waitVars, channelVars, toolVars>>

\* the event loop starts the broadcast_frame task of f (tasks start in the
\* order they were scheduled): no connections -> return; else the send_text
\* coroutines are created and gathered
BroadcastBegin(f) ==
    /\ frame[f] = "scheduled"
    /\ \A g \in Frames : g < f => frame[g] # "scheduled"
    /\ subs' = [subs EXCEPT ![f] = Range(active_connections)]
    /\ IF active_connections = <<>>
       THEN /\ frame' = [frame EXCEPT ![f] = "noop"]
            /\ UNCHANGED <<sent, send>>
       ELSE LET tasks == Tasks(active_connections)
            IN  /\ sent' = [sent EXCEPT ![f] = [c \in Consumers |-> Occurrences(tasks, c)]]
                /\ send' = [send EXCEPT ![f] = [c \in Consumers |->
                                IF c \in Range(tasks) THEN "inflight" ELSE "none"]]
                /\ frame' = [frame EXCEPT ![f] = IF tasks = <<>> THEN "returned" ELSE "sending"]
    /\ UNCHANGED <<active_connections, consumer, batchVars, sessionVars, waitVars, channelVars, toolVars>>

\* send_text of frame f to c returns: c has the frame
SendOk(f, c) ==
    /\ frame[f] = "sending"
    /\ send[f][c] = "inflight"
    /\ send' = [send EXCEPT ![f][c] = "ok"]
    /\ UNCHANGED <<active_connections, consumer, frame, subs, sent, batchVars, sessionVars, waitVars, channelVars, toolVars>>

\* send_text of frame f to c raises
SendRaise(f, c) ==
    /\ frame[f] = "sending"
    /\ send[f][c] = "inflight"
    /\ send' = [send EXCEPT ![f][c] = "failed"]
    /\ UNCHANGED <<active_connections, consumer, frame, subs, sent,
                   batchVars, sessionVars, waitVars, channelVars, toolVars>>

\* every send of f has returned or raised: gather returns, and broadcast_frame
GatherDone(f) ==
    /\ frame[f] = "sending"
    /\ \A c \in Consumers : send[f][c] # "inflight"
    /\ frame' = [frame EXCEPT ![f] = GatherResult(send[f])]
    /\ UNCHANGED <<active_connections, consumer, subs, sent, send,
                   batchVars, sessionVars, waitVars, channelVars, toolVars>>

HubNext ==
    \/ \E c \in Consumers : Subscribe(c)
    \/ \E c \in Consumers : Unsubscribe(c)
    \/ \E f \in Frames, encoded \in BOOLEAN : OnFrame(f, encoded)
    \/ \E f \in Frames : BroadcastBegin(f)
    \/ \E f \in Frames, c \in Consumers : SendOk(f, c)
    \/ \E f \in Frames, c \in Consumers : SendRaise(f, c)
    \/ \E f \in Frames : GatherDone(f)

\* --------------------------------------------------------- websocket_stream
ChannelStart(ready) ==
    /\ clientReady = ready
    /\ chpc = "new"
    /\ events = <<>>
    /\ msgs = 0

\* OdysseyClient() at import either succeeds or leaves odyssey_client = None
ChannelInit == \E ready \in BOOLEAN : ChannelStart(ready)

\* "except Exception": the error event is sent if the socket still takes it,
\* then the finally clause runs and the handler returns
ChFail(told) ==
    /\ events' = IF told THEN Append(events, "error") ELSE events
    /\ chpc' = "closed"

\* accept; without a client an error event and close, else the connected event
ChAccept ==
    /\ chpc = "new"
    /\ IF clientReady
       THEN events' = Append(events, "connected") /\ chpc' = "receive"
       ELSE events' = Append(events, "error") /\ chpc' = "closed"
    /\ UNCHANGED <<clientReady, msgs, batchVars, sessionVars, waitVars, hubVars, toolVars>>

\* receive() returns a binary message: an audio chunk
ChReceiveBytes ==
    /\ chpc = "receive"
    /\ msgs < MaxMessages
    /\ msgs' = msgs + 1
    /\ chpc' = "analyze"
    /\ UNCHANGED <<clientReady, events, batchVars, sessionVars, waitVars, hubVars, toolVars>>

\* receive() returns a message without bytes: a ping is answered with pong, any
\* other action or message is only logged; text that is not JSON makes
\* json.loads raise
ChReceiveText(kind, told) ==
    /\ chpc = "receive"
    /\ msgs < MaxMessages
    /\ msgs' = msgs + 1
    /\ IF kind = "ping" THEN events' = Append(events, "pong") /\ chpc' = "receive"
       ELSE IF kind = "other" THEN UNCHANGED <<events, chpc>>
       ELSE ChFail(told)
    /\ UNCHANGED <<clientReady, batchVars, sessionVars, waitVars, hubVars, toolVars>>

\* the peer is gone: receive or send_json raises and no error event gets out
ChPeerGone ==
    /\ chpc \in {"receive", "analyze", "map", "generate", "wait"}
    /\ ChFail(FALSE)
    /\ UNCHANGED <<clientReady, msgs, batchVars, sessionVars, waitVars, hubVars, toolVars>>

\* process_chunk returns features (its own except clause returns defaults) and
\* the analysis event is sent
ChAnalyze ==
    /\ chpc = "analyze"
    /\ events' = Append(events, "analysis")
    /\ chpc' = "map"
    /\ UNCHANGED <<clientReady, msgs, batchVars, sessionVars, waitVars, hubVars, toolVars>>

\* map_features_to_prompt returns and the prompt event is sent, or it raises
ChMap(ok, told) ==
    /\ chpc = "map"
    /\ IF ok THEN events' = Append(events, "prompt") /\ chpc' = "generate"
       ELSE ChFail(told)
    /\ UNCHANGED <<clientReady, msgs, batchVars, sessionVars, waitVars, hubVars, toolVars>>

\* generate_scene returns and generation_started is sent, or it re-raises
ChGenerate(ok, told) ==
    /\ chpc = "generate"
    /\ IF ok THEN events' = Append(events, "generation_started") /\ chpc' = "wait"
       ELSE ChFail(told)
    /\ UNCHANGED <<clientReady, msgs, batchVars, sessionVars, waitVars, hubVars, toolVars>>

\* odyssey_client.wait_for_completion(...): the backend OdysseyClient defines
\* no such method, the attribute lookup raises AttributeError
ChWait(told) ==
    /\ chpc = "wait"
    /\ ChFail(told)
    /\ UNCHANGED <<clientReady, msgs, batchVars, sessionVars, waitVars, hubVars, toolVars>>

ChannelNext ==
    \/ ChAccept
    \/ ChReceiveBytes
    \/ \E kind \in {"ping", "other", "not_json"}, told \in BOOLEAN : ChReceiveText(kind, told)
    \/ ChPeerGone
    \/ ChAnalyze
    \/ \E ok \in BOOLEAN, told \in BOOLEAN : ChMap(ok, told)
    \/ \E ok \in BOOLEAN, told \in BOOLEAN : ChGenerate(ok, told)
    \/ \E told \in BOOLEAN : ChWait(told)

\* ------------------------------------- SimulationManager.download_result
\* a downloaded path: f"{job_id}_stream_{i}.mp4" or f"{job_id}_stream_{i}_thumb.jpg"
FilePath(k, kind) == [stream |-> k, kind |-> kind]

FetchedVideoOnly(d, k, kind) == IF kind = "thumb" THEN d ELSE Append(d, FilePath(k, kind))

\* downloaded.append(video_path) / downloaded.append(thumb_path)
Fetched(d, k, kind) == Append(d, FilePath(k, kind))

NoItem == [status |-> "none", files |-> <<>>]

DownloadInit ==
    /\ dpc = "idle"
    /\ dstreams = 0
    /\ di = 0
    /\ downloaded = <<>>
    /\ item = NoItem

\* download_result(status) for a status with n streams; no streams returns []
\* and _process_single reports success with that empty list
DownloadResult(n) ==
    /\ dpc = "idle"
    /\ dstreams' = n
    /\ IF n = 0
       THEN /\ dpc' = "done"
            /\ item' = [status |-> "success", files |-> <<>>]
       ELSE /\ dpc' = "recording"
            /\ item' = item
    /\ UNCHANGED <<di, downloaded, mainVars, besidesDownload>>

\* client.get_recording(stream_id) returns
GetRecordingOk ==
    /\ dpc = "recording"
    /\ dpc' = "video"
    /\ UNCHANGED <<dstreams, di, downloaded, item, mainVars, besidesDownload>>

\* _download_file(recording.video_url, video_path) returns
DownloadVideoOk ==
    /\ dpc = "video"
    /\ downloaded' = Fetched(downloaded, di, "video")
    /\ dpc' = "thumb"
    /\ UNCHANGED <<dstreams, di, item, mainVars, besidesDownload>>

\* _download_file(recording.thumbnail_url, thumb_path) returns; after the last
\* stream download_result returns the list and _process_single reports success
DownloadThumbOk ==
    /\ dpc = "thumb"
    /\ downloaded' = Fetched(downloaded, di, "thumb")
    /\ IF di + 1 < dstreams
       THEN /\ di' = di + 1
            /\ dpc' = "recording"
            /\ item' = item
       ELSE /\ di' = di
            /\ dpc' = "done"
            /\ item' = [status |-> "success", files |-> downloaded']
    /\ UNCHANGED <<dstreams, mainVars, besidesDownload>>

\* get_recording or _download_file raises: the exception leaves download_result
\* and the except clause of _process_single returns the failed dict
DownloadFails ==
    /\ dpc \in {"recording", "video", "thumb"}
    /\ dpc' = "done"
    /\ item' = [status |-> "failed", files |-> <<>>]
    /\ UNCHANGED <<dstreams, di, downloaded, mainVars, besidesDownload>>

DownloadNext ==
    \/ \E n \in 0 .. MaxJobStreams : DownloadResult(n)
    \/ GetRecordingOk
    \/ DownloadVideoOk
    \/ DownloadThumbOk
    \/ DownloadFails

\* ------------------------------------------------------ SimulationScript
Timestamps == 0 .. MaxTimestamp
Prompts == {"p"}
\* the image argument of add_start: None, a path (str) or raw bytes
Images == {"none", "path", "bytes"}

\* the dict add_start appends; the "image" key is present unless image is None
StartAction(p, t, img) == [timestamp_ms |-> t, kind |-> "start", prompt |-> p, image |-> img]
\* the dict add_interact appends
InteractAction(p, t) == [timestamp_ms |-> t, kind |-> "interact", prompt |-> p, image |-> "none"]
\* the dict add_end appends: {"timestamp_ms": t, "end": {}}
EndAction(t) == [timestamp_ms |-> t, kind |-> "end", prompt |-> "none", image |-> "none"]

\* json.dumps raises TypeError on a bytes value
Serialisable(acts) == \A p \in 1 .. Len(acts) : acts[p].image # "bytes"

\* the JSON text of one action: a number, the body key, and a JSON object whose
\* members are strings
JsonObject(a) ==
    [number |-> a.timestamp_ms,
     key |-> a.kind,
     members |-> IF a.kind = "end" THEN <<>>
                 ELSE IF a.image = "none" THEN <<<<"prompt", a.prompt>>>>
                 ELSE <<<<"prompt", a.prompt>>, <<"image", a.image>>>>]

\* json.dumps(self.actions, indent=2)
JsonDumps(acts) == [p \in 1 .. Len(acts) |-> JsonObject(acts[p])]

\* the dict json.load builds from one JSON object
PyDict(o) ==
    [timestamp_ms |-> o.number,
     kind |-> o.key,
     prompt |-> IF Len(o.members) >= 1 THEN o.members[1][2] ELSE "none",
     image |-> IF Len(o.members) >= 2 THEN o.members[2][2] ELSE "none"]

\* json.load(f)
JsonLoad(text) == [p \in 1 .. Len(text) |-> PyDict(text[p])]

NoFile == [state |-> "absent", text |-> <<>>]
EmptyFile == [state |-> "empty", text |-> <<>>]
Written(text) == [state |-> "written", text |-> text]

ScriptInit ==
    /\ actions = <<>>
    /\ spc = "building"
    /\ file = NoFile
    /\ loaded = <<>>

AddStart(p, t, img) ==
    /\ spc = "building"
    /\ Len(actions) < MaxActions
    /\ actions' = Append(actions, StartAction(p, t, img))
    /\ UNCHANGED <<spc, file, loaded, mainVars, besidesScript>>

AddInteract(p, t) ==
    /\ spc = "building"
    /\ Len(actions) < MaxActions
    /\ actions' = Append(actions, InteractAction(p, t))
    /\ UNCHANGED <<spc, file, loaded, mainVars, besidesScript>>

AddEnd(t) ==
    /\ spc = "building"
    /\ Len(actions) < MaxActions
    /\ actions' = Append(actions, EndAction(t))
    /\ UNCHANGED <<spc, file, loaded, mainVars, besidesScript>>

\* to_file: the file is opened for writing (and so emptied) before json.dumps
\* runs; a TypeError from json.dumps leaves it empty
ToFile ==
    /\ spc = "building"
    /\ IF Serialisable(actions)
       THEN file' = Written(JsonDumps(actions)) /\ spc' = "saved"
       ELSE file' = EmptyFile /\ spc' = "save_raised"
    /\ UNCHANGED <<actions, loaded, mainVars, besidesScript>>

\* from_file: json.load raises JSONDecodeError on an empty file
FromFile ==
    /\ spc \in {"saved", "save_raised"}
    /\ IF file.state = "empty"
       THEN loaded' = loaded /\ spc' = "load_raised"
       ELSE loaded' = JsonLoad(file.text) /\ spc' = "loaded"
    /\ UNCHANGED <<actions, file, mainVars, besidesScript>>

ScriptNext ==
    \/ \E p \in Prompts, t \in Timestamps, img \in Images : AddStart(p, t, img)
    \/ \E p \in Prompts, t \in Timestamps : AddInteract(p, t)
    \/ \E t \in Timestamps : AddEnd(t)
    \/ ToFile
    \/ FromFile

\* ------------------------------------- OdysseyClientManager construction
Holders == 1 .. MaxHolders
Objects == 1 .. MaxHolders

NewAlways(inst, n) == n + 1

\* __new__: a new object only while cls._instance is None (None is 0)
New(inst, n) == IF inst = None THEN n + 1 ELSE inst

\* the class attributes every object starts from
ClassAttrs == [connected |-> FALSE, stream_id |-> None]

SingletonInit ==
    /\ instance = None
    /\ made = 0
    /\ initialized = {}
    /\ holder = [h \in Holders |-> None]
    /\ clientOf = [o \in Objects |-> None]
    /\ clientsMade = 0
    /\ attrs = [o \in Objects |-> ClassAttrs]

\* OdysseyClientManager(): __new__, then __init__, which raises ValueError when
\* the object is not initialized yet and ODYSSEY_API_KEY is not set
Construct(h, key) ==
    /\ holder[h] = None
    /\ instance' = New(instance, made)
    /\ made' = IF instance' = instance THEN made ELSE made + 1
    /\ IF instance' \in initialized
       THEN /\ holder' = [holder EXCEPT ![h] = instance']
            /\ initialized' = initialized
       ELSE IF key
       THEN /\ holder' = [holder EXCEPT ![h] = instance']
            /\ initialized' = initialized \cup {instance'}
       ELSE /\ holder' = holder
            /\ initialized' = initialized
    /\ UNCHANGED <<clientOf, clientsMade, attrs, mainVars, besidesSingleton>>

\* the "client" property read through a reference: created on first use
ClientAccess(h) ==
    /\ holder[h] # None
    /\ IF clientOf[holder[h]] = None
       THEN /\ clientsMade' = clientsMade + 1
            /\ clientOf' = [clientOf EXCEPT ![holder[h]] = clientsMade']
       ELSE UNCHANGED <<clientOf, clientsMade>>
    /\ UNCHANGED <<instance, made, initialized, holder, attrs, mainVars, besidesSingleton>>

\* an operation called through a reference stores the flag and the stream id
\* on the object it was called on
SetAttrs(h, conn, sid) ==
    /\ holder[h] # None
    /\ attrs' = [attrs EXCEPT ![holder[h]] = [connected |-> conn, stream_id |-> sid]]
    /\ UNCHANGED <<instance, made, initialized, holder, clientOf, clientsMade, mainVars, besidesSingleton>>

\* the reference goes out of scope; cls._instance keeps the object alive
Drop(h) ==
    /\ holder[h] # None
    /\ holder' = [holder EXCEPT ![h] = None]
    /\ UNCHANGED <<instance, made, initialized, clientOf, clientsMade, attrs, mainVars, besidesSingleton>>

SingletonNext ==
    \/ \E h \in Holders, key \in BOOLEAN : Construct(h, key)
    \/ \E h \in Holders : ClientAccess(h)
    \/ \E h \in Holders, conn \in BOOLEAN, sid \in {None} \cup StreamIds : SetAttrs(h, conn, sid)
    \/ \E h \in Holders : Drop(h)

\* ------------------------------------------------- backend stream endpoints
ServerInit ==
    /\ is_streaming = FALSE
    /\ svcOpen = FALSE
    /\ svcLive = FALSE
    /\ startpc = "idle"
    /\ endpc = "idle"
    /\ lastStart = "none"
    /\ lastEnd = "none"
    /\ routed = "none"

\* POST /stream/start: odyssey_client.connect is awaited first
StartRequest ==
    /\ startpc = "idle"
    /\ startpc' = "connect"
    /\ UNCHANGED <<is_streaming, svcOpen, svcLive, endpc, lastStart, lastEnd, routed, mainVars, besidesServer>>

\* client.connect returns; start_stream is awaited next
StartConnectOk ==
    /\ startpc = "connect"
    /\ svcOpen' = TRUE
    /\ startpc' = "start"
    /\ UNCHANGED <<is_streaming, svcLive, endpc, lastStart, lastEnd, routed, mainVars, besidesServer>>

\* client.start_stream returns: stream_manager.is_streaming = True
StartStreamReturns ==
    /\ startpc = "start"
    /\ svcOpen
    /\ svcLive' = TRUE
    /\ is_streaming' = TRUE
    /\ startpc' = "idle"
    /\ lastStart' = "started"
    /\ UNCHANGED <<svcOpen, endpc, lastEnd, routed, mainVars, besidesServer>>

\* connect or start_stream raises: HTTP 500, the flag is not touched
StartFails ==
    /\ startpc \in {"connect", "start"}
    /\ startpc' = "idle"
    /\ lastStart' = "error"
    /\ UNCHANGED <<is_streaming, svcOpen, svcLive, endpc, lastEnd, routed, mainVars, besidesServer>>

\* POST /stream/end: odyssey_client.end_stream is awaited first
EndRequest ==
    /\ endpc = "idle"
    /\ endpc' = "end"
    /\ UNCHANGED <<is_streaming, svcOpen, svcLive, startpc, lastStart, lastEnd, routed, mainVars, besidesServer>>

\* client.end_stream returns; disconnect is awaited next
EndStreamReturns ==
    /\ endpc = "end"
    /\ svcLive' = FALSE
    /\ endpc' = "disconnect"
    /\ UNCHANGED <<is_streaming, svcOpen, startpc, lastStart, lastEnd, routed, mainVars, besidesServer>>

\* client.disconnect returns: stream_manager.is_streaming = False
EndDisconnectReturns ==
    /\ endpc = "disconnect"
    /\ svcOpen' = FALSE
    /\ svcLive' = FALSE
    /\ is_streaming' = FALSE
    /\ endpc' = "idle"
    /\ lastEnd' = "ended"
    /\ UNCHANGED <<startpc, lastStart, routed, mainVars, besidesServer>>

\* end_stream or disconnect raises: HTTP 500, the assignment is skipped
EndFails ==
    /\ endpc \in {"end", "disconnect"}
    /\ endpc' = "idle"
    /\ lastEnd' = "error"
    /\ UNCHANGED <<is_streaming, svcOpen, svcLive, startpc, lastStart, routed, mainVars, besidesServer>>

\* the service ends the stream, or with fatal drops the connection; the
\* client's on_error callback only logs and no on_stream_ended is registered
ServiceEnds(fatal) ==
    /\ svcOpen
    /\ svcLive \/ fatal
    /\ svcLive' = FALSE
    /\ svcOpen' = IF fatal THEN FALSE ELSE svcOpen
    /\ UNCHANGED <<is_streaming, startpc, endpc, lastStart, lastEnd, routed, mainVars, besidesServer>>

\* POST /speech-to-video: interact if is_streaming, otherwise generate_scene
SpeechToVideo ==
    /\ routed' = IF is_streaming THEN "interact" ELSE "simulate"
    /\ UNCHANGED <<is_streaming, svcOpen, svcLive, startpc, endpc, lastStart, lastEnd, mainVars, besidesServer>>

ServerNext ==
    \/ StartRequest
    \/ StartConnectOk
    \/ StartStreamReturns
    \/ StartFails
    \/ EndRequest
    \/ EndStreamReturns
    \/ EndDisconnectReturns
    \/ EndFails
    \/ \E fatal \in BOOLEAN : ServiceEnds(fatal)
    \/ SpeechToVideo

\* ------------------------------ two process_batch calls on one processor
\* the two concurrent calls
Calls == {1, 2}
ItemSlots == 0 .. (MaxBatchItems - 1)
PipelinePc == {"submit", "wait", "download"}

\* the items of both calls inside "async with self.semaphore"
Inside == {t \in Calls \X ItemSlots : ipc[t[1]][t[2]] \in PipelinePc}

PerCallPermits(s, b) == Cardinality({t \in Inside : t[1] = b}) < pmax

\* the one semaphore made in __init__ admits a task while its value is positive
SharedPermits(s, b) == s > 0

NoDict == [index |-> -1, status |-> "none"]

PairStart(k) ==
    /\ pmax = k
    /\ psem = k
    /\ waiters = <<>>
    /\ ppc = [b \in Calls |-> "idle"]
    /\ pn = [b \in Calls |-> 0]
    /\ ipc = [b \in Calls |-> [i \in ItemSlots |-> "unused"]]
    /\ ires = [b \in Calls |-> [i \in ItemSlots |-> NoDict]]
    /\ pres = [b \in Calls |-> <<>>]

PairInit == \E k \in 1 .. MaxConcurrent : PairStart(k)

\* process_batch(scripts) with n scripts: gather starts one task per script in
\* index order, and each reaches semaphore.acquire in that order
PairProcessBatch(b, n) ==
    /\ ppc[b] = "idle"
    /\ ppc' = [ppc EXCEPT ![b] = "running"]
    /\ pn' = [pn EXCEPT ![b] = n]
    /\ ipc' = [ipc EXCEPT ![b] = [i \in ItemSlots |-> IF i < n THEN "queued" ELSE "unused"]]
    /\ waiters' = waiters \o [p \in 1 .. n |-> <<b, p - 1>>]
    /\ UNCHANGED <<pmax, psem, ires, pres, mainVars, besidesPair>>

\* the oldest waiter takes a permit
PairAcquire ==
    /\ waiters # <<>>
    /\ SharedPermits(psem, Head(waiters)[1])
    /\ psem' = psem - 1
    /\ ipc' = [ipc EXCEPT ![Head(waiters)[1]][Head(waiters)[2]] = "submit"]
    /\ waiters' = Tail(waiters)
    /\ UNCHANGED <<pmax, ppc, pn, ires, pres, mainVars, besidesPair>>

\* submit, then wait_for_completion, return and the item moves on
PairAdvance(b, i) ==
    /\ ipc[b][i] \in {"submit", "wait"}
    /\ ipc' = [ipc EXCEPT ![b][i] = IF ipc[b][i] = "submit" THEN "wait" ELSE "download"]
    /\ UNCHANGED <<pmax, psem, waiters, ppc, pn, ires, pres, mainVars, besidesPair>>

\* the task returns its dict (success after download_result, failed from the
\* except clause at any stage) and __aexit__ releases the permit
PairFinish(b, i, st) ==
    /\ ipc[b][i] \in PipelinePc
    /\ st = "success" => ipc[b][i] = "download"
    /\ ipc' = [ipc EXCEPT ![b][i] = "done"]
    /\ ires' = [ires EXCEPT ![b][i] = [index |-> i, status |-> st]]
    /\ psem' = psem + 1
    /\ UNCHANGED <<pmax, waiters, ppc, pn, pres, mainVars, besidesPair>>

\* gather of call b has every result: process_batch returns them in input order
PairReturn(b) ==
    /\ ppc[b] = "running"
    /\ \A i \in ItemSlots : i < pn[b] => ipc[b][i] = "done"
    /\ pres' = [pres EXCEPT ![b] = [p \in 1 .. pn[b] |-> ires[b][p - 1]]]
    /\ ppc' = [ppc EXCEPT ![b] = "returned"]
    /\ UNCHANGED <<pmax, psem, waiters, pn, ipc, ires, mainVars, besidesPair>>

PairNext ==
    \/ \E b \in Calls, n \in 0 .. MaxBatchItems : PairProcessBatch(b, n)
    \/ PairAcquire
    \/ \E b \in Calls, i \in ItemSlots : PairAdvance(b, i)
    \/ \E b \in Calls, i \in ItemSlots, st \in {"success", "failed"} : PairFinish(b, i, st)
    \/ \E b \in Calls : PairReturn(b)

\* -------------------------------------------------------- FrameCollector
\* max_frames = None
NoLimit == -1

\* the dict collect builds for a frame (frames are numbered by timestamp)
MetadataOf(k) == [timestamp_ms |-> k]

\* "if self.max_frames and len(self.frames) >= self.max_frames"
DropsOldest(m, n) == m # NoLimit /\ m # 0 /\ n >= m

CollectorInit ==
    /\ built = FALSE
    /\ max_frames = NoLimit
    /\ frames = <<>>
    /\ metadata = <<>>
    /\ arrived = 0
    /\ arrivals = <<>>

\* FrameCollector(max_frames=m)
FrameCollector(m) ==
    /\ ~built
    /\ built' = TRUE
    /\ max_frames' = m
    /\ UNCHANGED <<frames, metadata, arrived, arrivals, mainVars, besidesCollector>>

\* collect(frame): when full both lists lose their first entry, then the copy
\* of the frame and its metadata are appended
Collect ==
    /\ built
    /\ arrived < MaxArrivals
    /\ arrived' = arrived + 1
    /\ arrivals' = Append(arrivals, arrived')
    /\ IF DropsOldest(max_frames, Len(frames))
       THEN /\ frames' = Append(Tail(frames), arrived')
            /\ metadata' = Append(Tail(metadata), MetadataOf(arrived'))
       ELSE /\ frames' = Append(frames, arrived')
            /\ metadata' = Append(metadata, MetadataOf(arrived'))
    /\ UNCHANGED <<built, max_frames, mainVars, besidesCollector>>

\* clear(): both lists are emptied
Clear ==
    /\ built
    /\ frames' = <<>>
    /\ metadata' = <<>>
    /\ arrivals' = <<>>
    /\ UNCHANGED <<built, max_frames, arrived, mainVars, besidesCollector>>

CollectorNext ==
    \/ \E m \in {NoLimit} \cup (0 .. MaxKeep) : FrameCollector(m)
    \/ Collect
    \/ Clear

\* ---------------------------------------------------------- specifications
\* the components checked on their own start where their constructors leave them
ToolInit == DownloadInit /\ ScriptInit /\ SingletonInit /\ ServerInit /\ PairStart(1) /\ CollectorInit

Init == BatchInit /\ SessionInit /\ WaitInit /\ HubInit /\ ChannelStart(TRUE) /\ ToolInit
Next == BatchNext
Spec == Init /\ [][Next]_vars

SessionSpecInit == BatchStart(1) /\ SessionInit /\ WaitInit /\ HubInit /\ ChannelStart(TRUE) /\ ToolInit
SessionSpec == SessionSpecInit /\ [][SessionNext]_vars

\* one wait_for_completion call against a service that answers as it likes
WaitSpec == SessionSpecInit /\ [][WaitNext]_vars

\* the frame callback, the broadcast tasks and the /ws/video handlers
HubSpec == SessionSpecInit /\ [][HubNext]_vars

\* one /ws/stream connection and the messages its client sends
ChannelSpecInit == BatchStart(1) /\ SessionInit /\ WaitInit /\ HubInit /\ ChannelInit /\ ToolInit
ChannelSpec == ChannelSpecInit /\ [][ChannelNext]_vars

\* one download_result call inside _process_single
DownloadSpec == SessionSpecInit /\ [][DownloadNext]_vars

\* one script built, saved with to_file and read back with from_file
ScriptSpec == SessionSpecInit /\ [][ScriptNext]_vars

\* constructions of the manager and accesses to its client, on the event loop
SingletonSpec == SessionSpecInit /\ [][SingletonNext]_vars

\* the stream endpoints of the backend and the service behind them
ServerSpec == SessionSpecInit /\ [][ServerNext]_vars

\* two process_batch calls running concurrently on one BatchProcessor
PairSpecInit == BatchStart(1) /\ SessionInit /\ WaitInit /\ HubInit /\ ChannelStart(TRUE) /\ DownloadInit /\ ScriptInit /\ SingletonInit /\ ServerInit /\ PairInit /\ CollectorInit
PairSpec == PairSpecInit /\ [][PairNext]_vars

\* one FrameCollector and the collect and clear calls made on it
CollectorSpec == SessionSpecInit /\ [][CollectorNext]_vars

\* The event loop starts every scheduled broadcast task and resumes a gather
\* whose sends are all over; whether a send_text ever returns is up to the
\* websocket and its peer.
HubFairSpec ==
    /\ SessionSpecInit
    /\ [][HubNext]_vars
    /\ \A f \in Frames : WF_vars(BroadcastBegin(f)) /\ WF_vars(GatherDone(f))

\* The event loop runs every task that can take a step, and every call to the
\* service returns or raises; what the service answers is not constrained.
FairSpec ==
    /\ Init
    /\ [][Next]_vars
    /\ \A i \in Slots : WF_vars(TaskStep(i))
    /\ WF_vars(GatherReturn)

\* ------------------------------------------------------------------ claims

\* C1: with max_concurrent = k at most k items are between acquiring the permit
\* and leaving the pipeline (submit, wait, download); for k = 1 no two items
\* are past submission together; a queued item cannot proceed while k are in.
C1_ConcurrencyBound ==
    /\ Cardinality(InPipeline) <= max_concurrent
    /\ max_concurrent = 1 => \A i, j \in InPipeline : i = j
    /\ \A i \in Items :
          (pc[i] = "queued" /\ Cardinality(InPipeline) = max_concurrent)
              => ~ENABLED Acquire(i)

C1_Witness ==
    /\ max_concurrent = 2
    /\ Cardinality(InPipeline) = 2
    /\ \E i \in Items : pc[i] = "queued"

\* C2: the list process_batch returns is in input order: entry i is the result
\* of script i and carries index i, whatever the completion order was.
C2_ResultOrder ==
    batch = "returned" =>
        \A p \in 1 .. Len(results) :
            /\ results[p].index = p - 1
            /\ results[p] = taskResult[p - 1]

C2_Witness ==
    /\ batch = "returned"
    /\ nScripts = 3
    /\ order = <<1, 2, 0>>

\* C3: a step in which item i fails records {index i, failed, error} for i and
\* changes neither the position nor the outcome of any other item, nor the run.
C3_Isolation ==
    [][\A i \in Slots :
          (pc[i] \in InPipelinePc /\ pc'[i] = "done" /\ taskResult'[i].status # "success")
          => /\ taskResult'[i].index = i
             /\ taskResult'[i].status = "failed"
             /\ taskResult'[i].error # "none"
             /\ batch' = batch
             /\ \A j \in Slots \ {i} :
                   /\ pc'[j] = pc[j]
                   /\ taskResult'[j] = taskResult[j]
                   /\ streams'[j] = streams[j]]_vars

C3_Witness ==
    /\ batch = "returned"
    /\ nScripts = 3
    /\ order[1] = 0
    /\ taskResult[0].status = "failed"
    /\ taskResult[1].status = "success"
    /\ taskResult[2].status = "success"

\* C4: a started run ends (returns, or is cancelled by its caller) whatever the
\* service answers, also when a job is reported pending or running for ever.
C4_AlwaysCompletes == (batch = "running") ~> (batch \in {"returned", "cancelled"})

\* What does hold under FairSpec: a started run ends provided no job is
\* reported pending or running for ever; the unbounded wait is the only obstacle.
CompletesIfJobsSettle ==
    (\A i \in Slots : <>[](pc[i] # "sleep"))
        => ((batch = "running") ~> (batch \in {"returned", "cancelled"}))

\* C5: process_batch returns one record per script, each with its index and a
\* status of success or failed, also when every item failed or none was given.
C5_OneResultPerScript ==
    batch = "returned" =>
        /\ Len(results) = nScripts
        /\ \A p \in 1 .. Len(results) :
              /\ results[p].status \in {"success", "failed"}
              /\ results[p].index \in 0 .. (nScripts - 1)

C5_Witness ==
    /\ batch = "returned"
    /\ nScripts = 3
    /\ \A p \in 1 .. 3 : results[p].status = "failed"
    /\ {results[p].error : p \in 1 .. 3} = {"submit_error", "status_error", "download_error"}

\* C6: every acquired permit is released exactly once: free permits plus items
\* in the pipeline always equal max_concurrent, so the value never exceeds it
\* and is back at max_concurrent whenever the pipeline is empty.
C6_PermitBalance ==
    /\ semaphore + Cardinality(InPipeline) = max_concurrent
    /\ semaphore <= max_concurrent
    /\ InPipeline = {} => semaphore = max_concurrent

C6_Witness ==
    /\ batch = "cancelled"
    /\ semaphore = max_concurrent
    /\ \E i, j, k \in Items :
          /\ taskResult[i].status = "failed"
          /\ taskResult[j].status = "success"
          /\ pc[k] = "cancelled"

\* C7: the session is never Streaming (connected with a stream id) without
\* having been Connected (connected, no stream id) before.
C7_StreamingAfterConnected ==
    /\ SessionState = "Streaming" => passedConnected
    /\ stream_id # None => passedConnected

C7_Witness ==
    /\ SessionState = "Streaming"
    /\ last = [op |-> "start_stream", from |-> "Connected", res |-> "ok"]

\* C8 as claimed: a start_stream issued in any state other than Connected fails
\* with the stream error before reaching the service.
C8_StartOnlyFromConnected ==
    /\ \A c \in Callers : Pending(c, "start_stream") => call[c].from = "Connected"
    /\ (last.op = "start_stream" /\ last.from # "Connected") => last.res = "OdysseyStreamError"

C10_SingleConnect == opened + InFlightConnects <= 1

\* C11 as claimed: an end_stream issued with no active stream (any state other
\* than Streaming) returns as a no-op, and only an end_stream issued while
\* Streaming reaches the underlying client.
C11_EndStreamIdempotent ==
    /\ \A c \in Callers : Pending(c, "end_stream") => call[c].from = "Streaming"
    /\ (last.op = "end_stream" /\ last.from # "Streaming") => last.res = "noop"

\* C12 as claimed: a step in which the service takes the connection away (the
\* connected flag falls while no call returns) leaves no stream id behind.
C12_FatalCollapsesToIdle ==
    [][(connected /\ ~connected' /\ call' = call) => stream_id' = None]_vars

\* C13 as claimed: at most one interact is in flight against the underlying
\* client at any time.
C13_InteractSerialized ==
    Cardinality({c \in Callers : Pending(c, "interact")}) <= 1

C15_TimesOut ==
    /\ (timeout # NoTimeout /\ wpc = "sleep") => clock <= timeout
    /\ wres = "returned" => wstatus.status \notin NonTerminal

\* C16 as claimed: an item whose job completed without streams is reported
\* failed; no item is reported success with an empty file list.
C16_EmptyResultIsFailure ==
    \A i \in Slots :
        taskResult[i].status = "success" => taskResult[i].files > 0

\* C21 as claimed: once the job record holds a terminal status, no step
\* changes that status.
C21_TerminalIsFinal ==
    [][(tracked \in TerminalStatus) => (tracked' = tracked)]_vars

C23_CancelLetsInFlightFinish ==
    [][(batch = "running" /\ batch' = "cancelled") =>
          \A i \in Slots :
              pc[i] \in {"poll", "sleep", "download"} => pc'[i] # "cancelled"]_vars

\* C24: an item reaches the submission at most once: it enters submit only
\* from the queue, enters the queue only when process_batch starts, and never
\* becomes unused again; an item whose wait raises is done with a failed record.
C24_NoRetry ==
    [][\A i \in Slots :
          /\ (pc'[i] = "submit" /\ pc[i] # "submit") => pc[i] = "queued"
          /\ (pc'[i] = "queued" /\ pc[i] # "queued") => (pc[i] = "unused" /\ batch = "idle")
          /\ pc'[i] = "unused" => pc[i] = "unused"
          /\ (PollRaise(i) \/ (pc[i] = "poll" /\ pc'[i] = "done" /\ taskResult'[i].error # "none"))
                => (pc'[i] = "done" /\ taskResult'[i].status = "failed")]_vars

C24_Witness ==
    /\ batch = "returned"
    /\ \E i \in Items :
          /\ taskResult[i].status = "failed"
          /\ taskResult[i].error = "status_error"
          /\ pc[i] = "done"

\* C25: a step of wait_for_completion (entering the loop, a poll, a sleep, any
\* exit) sends no cancel to the service and changes neither the session nor the
\* consumer set nor any broadcast.
C25_WaitOnlyPolls ==
    [][wpc' # wpc =>
          /\ cancelIssued' = cancelIssued
          /\ UNCHANGED sessionVars
          /\ UNCHANGED hubVars]_vars

C25_Witness ==
    /\ wres = "TimeoutError"
    /\ ~cancelIssued
    /\ tracked \in NonTerminal

\* C17: a publish with no subscribed websocket returns without sending and
\* without raising; otherwise one send_text is created for each websocket
\* subscribed at the publish and none for any other, and no websocket gets a
\* frame more often than it was sent.
C17_EachConsumerSentOnce ==
    \A f \in Frames :
        /\ frame[f] # "raised"
        /\ frame[f] = "noop" =>
              /\ subs[f] = {}
              /\ \A c \in Consumers : sent[f][c] = 0 /\ send[f][c] = "none"
        /\ frame[f] \in {"sending", "returned"} =>
              \A c \in Consumers :
                  /\ sent[f][c] = (IF c \in subs[f] THEN 1 ELSE 0)
                  /\ send[f][c] # "none" <=> c \in subs[f]

C17_Witness ==
    /\ frame[1] = "noop"
    /\ frame[2] = "returned"
    /\ subs[2] = Consumers
    /\ \A c \in Consumers : sent[2][c] = 1 /\ send[2][c] = "ok"

\* C18: broadcast_frame never raises; when it returns every send it created has
\* run to its end; and a step in which the send to one websocket fails changes
\* neither the sends to the others, nor the publish, nor the subscriptions: a
\* send in flight belongs to a publish still awaiting it and can still deliver.
C18_FailureIsolated ==
    /\ [](\A f \in Frames :
            /\ frame[f] # "raised"
            /\ frame[f] = "returned" =>
                  \A c \in subs[f] : send[f][c] \in {"ok", "failed"}
            /\ \A c \in Consumers : send[f][c] = "inflight" => frame[f] = "sending")
    /\ [][\A f \in Frames, c \in Consumers :
            (send[f][c] = "inflight" /\ send'[f][c] = "failed")
            => /\ frame' = frame
               /\ active_connections' = active_connections
               /\ \A g \in Frames, d \in Consumers :
                     (g # f \/ d # c) => send'[g][d] = send[g][d]]_vars

C18_Witness ==
    \E f \in Frames :
        /\ frame[f] = "returned"
        /\ subs[f] = Consumers
        /\ send[f][1] = "failed"
        /\ \A c \in Consumers \ {1} : send[f][c] = "ok"

\* C19 as claimed: in the step in which a publish returns, the websockets whose
\* send failed leave active_connections, and only they.
C19_FailedConsumerRemoved ==
    [][\A f \in Frames :
          (frame[f] = "sending" /\ frame'[f] = "returned")
          => Range(active_connections') =
                Range(active_connections) \ {c \in Consumers : send[f][c] = "failed"}]_vars

\* C20 as claimed: a websocket is never delivered a frame after it has been
\* delivered a frame that the callback handed over later.
C20_PerConsumerOrder ==
    [][\A f \in Frames, c \in Consumers :
          (send[f][c] = "inflight" /\ send'[f][c] = "ok")
          => \A g \in Frames : g > f => send[g][c] # "ok"]_vars

\* C26 as claimed: a publish that is awaiting its sends eventually finishes,
\* also when the send to one websocket never returns.
C26_PublishEventuallyFinishes ==
    \A f \in Frames : (frame[f] = "sending") ~> (frame[f] = "returned")

\* C27: no publish raises; active_connections holds each subscribed websocket
\* once and nothing else; every websocket in the list when a publish began has
\* its send; and a step in which a websocket subscribes or unsubscribes changes
\* the list by that websocket only and touches no publish and no send.
C27_SubscribeSafeDuringPublish ==
    /\ [](/\ Len(active_connections) = Cardinality(Range(active_connections))
          /\ Range(active_connections) = {c \in Consumers : consumer[c] = "subscribed"}
          /\ \A f \in Frames :
                /\ frame[f] # "raised"
                /\ frame[f] \in {"sending", "returned"} =>
                      \A c \in subs[f] : sent[f][c] = 1 /\ send[f][c] # "none")
    /\ [][\A c \in Consumers :
            consumer'[c] # consumer[c] =>
               /\ UNCHANGED <<frame, subs, sent, send>>
               /\ Range(active_connections') \ {c} = Range(active_connections) \ {c}]_vars

C27_Witness ==
    /\ frame[1] = "sending"
    /\ subs[1] = {1}
    /\ send[1][1] = "inflight"
    /\ consumer[1] = "gone"
    /\ consumer[2] = "subscribed"
    /\ active_connections = <<2>>

\* C28 as claimed: while a connect, start_stream, end_stream or disconnect of
\* one caller is awaiting the service, no step of another caller's transition
\* changes the connected flag or the stream id.
C28_TransitionsSerialized ==
    [][\A c, d \in Callers :
          ( /\ c # d
            /\ call[c].op \in {"connect", "start_stream", "end_stream", "disconnect"}
            /\ call'[c] = call[c]
            /\ \/ call[d].op \in {"connect", "start_stream", "end_stream", "disconnect"}
               \/ call'[d].op \in {"connect", "start_stream", "end_stream", "disconnect"}
            /\ call'[d] # call[d] )
          => (connected' = connected /\ stream_id' = stream_id)]_vars

\* C29 as claimed: connected comes first; a prompt event follows an analysis
\* event, generation_started follows the prompt event, and the event after
\* generation_started is the generation_complete of that chunk.
C29_ChunkEventsInOrder ==
    \A p \in DOMAIN events :
        /\ events[p] = "connected" => p = 1
        /\ events[p] = "analysis" => events[1] = "connected"
        /\ events[p] = "prompt" => (p > 1 /\ events[p - 1] = "analysis")
        /\ events[p] = "generation_started" => (p > 1 /\ events[p - 1] = "prompt")
        /\ (events[p] = "generation_started" /\ p < Len(events))
              => events[p + 1] = "generation_complete"

\* C30 as claimed: after the error event for a failed audio chunk (an error
\* event that follows the analysis, prompt or generation_started event of the
\* chunk) the handler is still in its loop, ready for the next trigger.
C30_TriggerFailureRecoverable ==
    ( /\ Len(events) > 1
      /\ events[Len(events)] = "error"
      /\ events[Len(events) - 1] \in {"analysis", "prompt", "generation_started"} )
    => chpc # "closed"

\* C31: a connect whose client.connect raises is surfaced to its caller at once
\* (the call ends with the error, no second attempt is made), it changes neither
\* the connected flag nor the stream id, and when the flag is false afterwards
\* the next connect awaits the service again instead of being skipped.
C31_FailedConnectLeavesIdle ==
    [][\A c \in Callers :
          (Pending(c, "connect") /\ call'[c] = NoCall /\ opened' = opened)
          => /\ last' = [op |-> "connect", from |-> call[c].from, res |-> "raised"]
             /\ connected' = connected
             /\ stream_id' = stream_id
             /\ (~connected => ~connected' /\ ~SkipsConnect(connected'))]_vars

C31_Witness ==
    /\ last = [op |-> "connect", from |-> "Idle", res |-> "raised"]
    /\ ~connected
    /\ stream_id = None
    /\ opened = 0
    /\ \E c \in Callers : Pending(c, "connect") /\ call[c].from = "Idle"

\* the list download_result builds for n streams
ExpectedFiles(n) ==
    [p \in 1 .. 2 * n |-> FilePath((p - 1) \div 2, IF p % 2 = 1 THEN "video" ELSE "thumb")]

\* C32: for a completed job with n streams a successful item lists exactly 2n
\* files, the video and then the thumbnail of each stream in stream order; an
\* item whose downloads did not all succeed is reported failed, never success
\* with a partial list.
C32_AllArtifactsListed ==
    /\ downloaded = SubSeq(ExpectedFiles(dstreams), 1, Len(downloaded))
    /\ item.status = "success" =>
          /\ Len(item.files) = 2 * dstreams
          /\ item.files = ExpectedFiles(dstreams)
    /\ (dpc = "done" /\ Len(downloaded) < 2 * dstreams) =>
          item = [status |-> "failed", files |-> <<>>]

C32_Witness ==
    /\ dpc = "done"
    /\ dstreams = 2
    /\ item.status = "success"
    /\ item.files = <<FilePath(0, "video"), FilePath(0, "thumb"),
                      FilePath(1, "video"), FilePath(1, "thumb")>>

\* C33: every script built with add_start / add_interact / add_end is saved by
\* to_file, and from_file of the saved file has the same ordered action
\* sequence as the script.
C33_ScriptRoundTrip ==
    /\ spc \in {"building", "saved", "loaded"}
    /\ spc = "saved" => JsonLoad(file.text) = actions
    /\ spc = "loaded" => loaded = actions

\* C34: wait_for_completion returns normally only when the last polled status
\* is 'completed'; on every other status the service reports it keeps polling
\* or raises.
C34_ReturnsOnlyCompleted ==
    wres = "returned" => wstatus.status = "completed"

\* C35: every construction of OdysseyClientManager yields the same object, so
\* all references share one connected flag and one stream id, and over any
\* sequence of constructions and client accesses at most one service client
\* is created.
C35_Singleton ==
    /\ made <= 1
    /\ clientsMade <= 1
    /\ \A h \in Holders : holder[h] # None => holder[h] = instance
    /\ \A h, g \in Holders :
          (holder[h] # None /\ holder[g] # None)
          => /\ holder[h] = holder[g]
             /\ attrs[holder[h]] = attrs[holder[g]]
             /\ clientOf[holder[h]] = clientOf[holder[g]]

C35_Witness ==
    /\ holder[1] # None
    /\ holder[2] # None
    /\ holder[3] = None
    /\ clientsMade = 1
    /\ clientOf[holder[2]] = 1
    /\ attrs[holder[1]] = [connected |-> TRUE, stream_id |-> 1]

\* C36: when a disconnect call completes (awaited or skipped) the session is
\* not connected and has no stream id, and a skipped disconnect contacts
\* nothing; when an end_stream call that passed the connected check completes,
\* by returning or by raising, the stream id is None.
C36_NoStreamLeftBehind ==
    [][/\ \A c \in Callers :
             (Pending(c, "disconnect") /\ call'[c] = NoCall)
             => ~connected' /\ stream_id' = None
       /\ (call' = call /\ last' # last /\ last'.op = "disconnect")
             => /\ last'.res = "noop"
                /\ opened' = opened
                /\ ~connected' /\ stream_id' = None
       /\ \A c \in Callers :
             (Pending(c, "end_stream") /\ call'[c] = NoCall) => stream_id' = None
       /\ (call' = call /\ last' # last /\ last'.op = "end_stream" /\ connected)
             => stream_id' = None]_vars

\* C37: is_streaming is true only while the underlying client has a started
\* stream that has not ended, so a prompt is routed to interact only on a live
\* stream; the flag is false after /stream/end completed with an error and
\* after a fatal service error.
C37_FlagAgreesWithSession ==
    is_streaming => svcLive

\* C38: with two process_batch calls running on one BatchProcessor the items
\* of both calls that are between submit and download never number more than
\* max_concurrent, and each call returns one result per script of its own, in
\* its own input order.
C38_CeilingPerProcessor ==
    /\ Cardinality(Inside) <= pmax
    /\ \A b \in Calls :
          ppc[b] = "returned" =>
             /\ Len(pres[b]) = pn[b]
             /\ \A p \in 1 .. pn[b] :
                   /\ pres[b][p].index = p - 1
                   /\ pres[b][p] = ires[b][p - 1]

C38_Witness ==
    /\ pmax = 2
    /\ ppc = [b \in Calls |-> "running"]
    /\ pn = [b \in Calls |-> 2]
    /\ ipc[1][1] \in PipelinePc
    /\ ipc[2][0] \in PipelinePc
    /\ ipc[2][1] = "queued"
    /\ ipc[1][0] = "done"

\* the last n entries of q
LastOf(q, n) == SubSeq(q, Len(q) - n + 1, Len(q))

\* C39: with max_frames = m set, after any sequence of collect and clear calls
\* at most m frames are kept, they are the most recent arrivals since the last
\* clear in arrival order (the oldest is the one dropped when full), and the
\* metadata list has the same length with entry i describing frame i.
C39_BoundedFifo ==
    /\ Len(metadata) = Len(frames)
    /\ \A p \in 1 .. Len(frames) : metadata[p] = MetadataOf(frames[p])
    /\ (built /\ max_frames # NoLimit) =>
          /\ Len(frames) <= max_frames
          /\ frames = LastOf(arrivals, IF Len(arrivals) < max_frames THEN Len(arrivals) ELSE max_frames)

====
